---------------------------- MODULE Spec2Model ----------------------------
(***************************************************************************)
(* Register / bit-field access layer of the MicroPython MLX90393 driver    *)
(* (micropython_mlx90393/mlx90393.py): the CBits and RegisterStructCMD     *)
(* descriptors, the MLX90393 device object with its gain property, and the *)
(* I2C bus with the sensor's registers behind it.                          *)
(*                                                                         *)
(* Every bus call of a descriptor (writeto, readfrom) is one step, so that *)
(* callers sharing the bus can interleave between any two bus calls.       *)
(***************************************************************************)
EXTENDS Integers, Sequences, FiniteSets, TLC

(***************************************************************************)
(* Bounds of the model.                                                    *)
(***************************************************************************)
\* register contents are drawn from Sample(0) .. Sample(MaxSample)
MaxSample == 5
\* the sensor answers with a status byte in 0 .. MaxStatus
MaxStatus == 1
\* the gain setter is tried with -MaxNeg .. 7 + MaxOver
MaxNeg == 2
MaxOver == 2
\* the longest free sequence of read calls a caller performs
MaxReads == 2

(***************************************************************************)
(* Program constants.                                                      *)
(***************************************************************************)
_CMD_RR == 80
_CMD_WR == 96
DefaultAddress == 12
RegisterWidth == 2
None == -1

GAIN_5X == 0
GAIN_4X == 1
GAIN_3X == 2
GAIN_2_5X == 3
GAIN_2X == 4
GAIN_1_67X == 5
GAIN_1_33X == 6
GAIN_1X == 7

gain_values ==
  << "GAIN_5X", "GAIN_4X", "GAIN_3X", "GAIN_2_5X",
     "GAIN_2X", "GAIN_1_67X", "GAIN_1_33X", "GAIN_1X" >>

(***************************************************************************)
(* Python integer and byte operations, on the values the driver uses.      *)
(***************************************************************************)
Pow2(n) == 2 ^ n

Shl(x, n) == x * Pow2(n)

Shr(x, n) == x \div Pow2(n)

RECURSIVE BitAnd(_, _)
BitAnd(a, b) ==
  IF a = 0 \/ b = 0 THEN 0
  ELSE ((a % 2) * (b % 2)) + 2 * BitAnd(a \div 2, b \div 2)

RECURSIVE BitOr(_, _)
BitOr(a, b) ==
  IF a = 0 THEN b
  ELSE IF b = 0 THEN a
  ELSE (IF (a % 2) + (b % 2) > 0 THEN 1 ELSE 0) + 2 * BitOr(a \div 2, b \div 2)

\* reg & ~mask for a non-negative reg: the bits of mask are cleared
AndNot(reg, mask) == reg - BitAnd(reg, mask)

\* range(n - 1, -1, -1) and range(0, n), as sequences of 0-based indices
RangeDown(n) == [k \in 1..n |-> n - k]

RangeUp(n) == [k \in 1..n |-> k - 1]

\* faulty variant of Reversed: the sequence is left in its order
ReversedNot(s) == s

Reversed(s) == [k \in 1..Len(s) |-> s[Len(s) + 1 - k]]

\* reg = 0; for i in order: reg = (reg << 8) | mem[i]
RECURSIVE Assemble(_, _, _)
Assemble(reg, mem, order) ==
  IF order = << >> THEN reg
  ELSE Assemble(BitOr(Shl(reg, 8), mem[Head(order) + 1]), mem, Tail(order))

\* int.to_bytes(n, "big") of a value that fits in n bytes
ToBytesBig(x, n) == [k \in 1..n |-> (x \div (256 ^ (n - k))) % 256]

\* struct.unpack(">BH", data)
UnpackBH(data) == << data[1], data[2] * 256 + data[3] >>


(***************************************************************************)
(* The descriptors (CBits.__init__, RegisterStructCMD.__init__) and the    *)
(* instances the MLX90393 class declares.                                  *)
(***************************************************************************)
CBits(num_bits, register_address, start_bit, register_width, lsb_first, cmd_read, cmd_write) ==
  [ bit_mask  |-> Shl(Pow2(num_bits) - 1, start_bit),
    register  |-> register_address,
    star_bit  |-> start_bit,
    lenght    |-> register_width + 1,
    lsb_first |-> lsb_first,
    cmd_read  |-> cmd_read,
    cmd_write |-> cmd_write ]

\* struct.calcsize("H")
CalcsizeH == 2

RegisterStructCMD(register_address, cmd_read, cmd_write) ==
  [ register  |-> register_address,
    lenght    |-> CalcsizeH + 1,
    cmd_read  |-> cmd_read,
    cmd_write |-> cmd_write ]

_reg_0 == RegisterStructCMD(0, _CMD_RR, _CMD_WR)

_reg_2 == RegisterStructCMD(2, _CMD_RR, _CMD_WR)

\* faulty variant of _bits: the field starts one bit higher
_bitsAtBit4 == CBits(3, 2, 4, 2, FALSE, _CMD_RR, _CMD_WR)

_bits == CBits(3, 2, 3, 2, FALSE, _CMD_RR, _CMD_WR)

_gain == CBits(3, 0, 4, 2, FALSE, _CMD_RR, _CMD_WR)

_hall == CBits(4, 0, 0, 2, FALSE, _CMD_RR, _CMD_WR)

\* the bit fields declared on the device
DeclaredFields == { _gain, _hall, _bits }

\* the largest value that fits in a field
FieldMax(acc) == Shr(acc.bit_mask, acc.star_bit)

\* the whole-register descriptor of a register address
RegDescriptor(r) == IF r = 0 THEN _reg_0 ELSE _reg_2

(***************************************************************************)
(* Pure parts of the descriptors' code.                                    *)
(***************************************************************************)
\* faulty variant of ReadPayload: a write command of zero is sent
ReadPayloadWrites(acc) == << acc.cmd_write, 0, 0, Shl(acc.register, 2) >>

\* faulty variant of ReadPayload: the register address is not shifted
ReadPayloadNotShifted(acc) == << acc.cmd_read, acc.register >>

\* bytes([self.cmd_read, self.register << 2])
ReadPayload(acc) == << acc.cmd_read, Shl(acc.register, 2) >>

\* faulty variant of GetOrder: the range is not reversed for lsb_first = False
GetOrderNotReversed(acc, n) == RangeDown(n)

\* CBits.__get__: the order in which the register bytes are assembled
GetOrder(acc, n) ==
  IF ~ acc.lsb_first THEN Reversed(RangeDown(n)) ELSE RangeDown(n)

\* faulty variant of SetOrder: the bytes are taken low byte first whatever lsb_first
SetOrderLsbFirst(acc, n) == RangeDown(n)

\* CBits.__set__: the order in which the register bytes are assembled
SetOrder(acc, n) ==
  IF ~ acc.lsb_first THEN RangeUp(n) ELSE RangeDown(n)

\* CBits.__get__ after the bus read: the register value assembled
CBitsGetReg(acc, data) ==
  LET mem_value == Tail(data)
  IN  Assemble(0, mem_value, GetOrder(acc, Len(mem_value)))

\* CBits.__get__ after the bus read: the field value returned
CBitsGetValue(acc, data) ==
  Shr(BitAnd(CBitsGetReg(acc, data), acc.bit_mask), acc.star_bit)

\* faulty variant of CBitsSetCleared: the field is not cleared before the merge
CBitsSetNotCleared(acc, data) ==
  Assemble(0, Tail(data), SetOrder(acc, Len(Tail(data))))


\* CBits.__set__ after the first bus read: the register value assembled
CBitsSetReg(acc, data) ==
  LET memory_value == Tail(data)
  IN  Assemble(0, memory_value, SetOrder(acc, Len(memory_value)))

\* CBits.__set__ after the first bus read: the register value with the
\* field cleared (reg &= ~self.bit_mask)
CBitsSetCleared(acc, data) == AndNot(CBitsSetReg(acc, data), acc.bit_mask)

\* value <<= self.star_bit; reg |= value fits reg.to_bytes(lenght - 1, "big")
MergeFits(acc, data, value) ==
  /\ value >= 0
  /\ BitOr(CBitsSetCleared(acc, data), Shl(value, acc.star_bit))
       < 256 ^ (acc.lenght - 1)

\* faulty variant of MergeLow: the value is not shifted to the field's position
MergeLowNotShifted(acc, data, value) ==
  BitOr(CBitsSetCleared(acc, data), value % (256 ^ (acc.lenght - 1)))

\* the low bytes of reg | value: what is encoded when the merged value fits,
\* and what a to_bytes that does not check the size keeps when it does not
MergeLow(acc, data, value) ==
  BitOr(CBitsSetCleared(acc, data),
        Shl(value, acc.star_bit) % (256 ^ (acc.lenght - 1)))

\* faulty variant of CBitsWritePayload: the two register bytes change places
CBitsWritePayloadSwapped(acc, merged) ==
  << acc.cmd_write, ToBytesBig(merged, acc.lenght - 1)[2],
     ToBytesBig(merged, acc.lenght - 1)[1], Shl(acc.register, 2) >>

\* the write command of CBits.__set__
CBitsWritePayload(acc, merged) ==
  LET reg == ToBytesBig(merged, acc.lenght - 1)
  IN  << acc.cmd_write, reg[1], reg[2], Shl(acc.register, 2) >>

\* faulty variant of RegWritePayload: the low byte is sent first
RegWritePayloadLowFirst(acc, value) ==
  << acc.cmd_write, BitAnd(value, 255), Shr(value, 8), Shl(acc.register, 2) >>

\* the write command of RegisterStructCMD.__set__
RegWritePayload(acc, value) ==
  << acc.cmd_write, Shr(value, 8), BitAnd(value, 255), Shl(acc.register, 2) >>

\* faulty variant of GainRejected: the upper end of the range is off by one
GainRejectedAbove8(value) == value \notin 1..8

\* the gain setter's check: value not in range(1, 8)
GainRejected(value) == value \notin 1..7


(***************************************************************************)
(* State.                                                                  *)
(***************************************************************************)
Callers == {1, 2}

RegAddrs == {0, 2}

StatusBytes == 0..MaxStatus

\* 16-bit register contents tried: 0x0000, 0xFFFF and a spread of patterns
Sample(k) == IF k = 1 THEN 65535 ELSE (k * 40503) % 65536

RegSamples == { Sample(k) : k \in 0..MaxSample }

VARIABLES
  regs,         \* the sensor: register address -> 16-bit content
  resp,         \* the sensor: data bytes it sends after the status byte
  status_last,  \* MLX90393._status_last
  pc,           \* per caller: position in the descriptor it is running
  call,         \* per caller: the call it is running
  local,        \* per caller: local variables of the running call
  todo,         \* per caller: the calls it still makes, in order
  log           \* the calls that have returned or raised, in order

vars == << regs, resp, status_last, pc, call, local, todo, log >>

\* a call: which handler, on which descriptor, with which value
Op(kind, acc, value) == [kind |-> kind, acc |-> acc, value |-> value]

NewLocal ==
  [ payload |-> << >>,      \* the write command built by CBits.__set__
    rx      |-> None,       \* first byte of the last response received
    data    |-> << >>,      \* the response CBits assembled the register from
    reg     |-> None,       \* the register value CBits assembled from it
    bus     |-> << >>,      \* the bus calls made so far, in order
    regs0   |-> regs,       \* the registers when the call started
    status0 |-> status_last,\* _status_last when the call started
    other   |-> FALSE ]     \* another caller used the bus during the call

\* the value last returned to caller c (None when there is none)
LastResult(c) ==
  LET mine == SelectSeq(log, LAMBDA e : e.who = c)
  IN  IF mine = << >> THEN None ELSE mine[Len(mine)].result

(***************************************************************************)
(* The bus and the sensor behind it.                                       *)
(***************************************************************************)
\* the sensor executes a command: a read command latches the register's two
\* bytes, high byte first; a write command stores the two bytes it carries
SensorRegs(payload) ==
  IF payload[1] = _CMD_WR /\ Len(payload) = 4
  THEN [regs EXCEPT ![Shr(payload[4], 2)] = payload[2] * 256 + payload[3]]
  ELSE regs

SensorResp(payload) ==
  IF payload[1] = _CMD_RR /\ Len(payload) = 2
  THEN ToBytesBig(regs[Shr(payload[2], 2)], RegisterWidth)
  ELSE << 0, 0 >>

\* another caller's bus call falls inside every call that is under way
Disturb(c) ==
  [d \in Callers |->
     IF d # c /\ pc[d] # "idle" THEN [local[d] EXCEPT !.other = TRUE]
     ELSE local[d]]

\* obj._i2c.writeto(obj._address, payload) by caller c, then go to `next`
Writeto(c, payload, next) ==
  /\ regs' = SensorRegs(payload)
  /\ resp' = SensorResp(payload)
  /\ local' = [Disturb(c) EXCEPT
                 ![c].bus = Append(@, << "writeto", DefaultAddress, payload >>)]
  /\ pc' = [pc EXCEPT ![c] = next]

\* data = obj._i2c.readfrom(obj._address, n) with status byte st
Readfrom(st) == << st >> \o resp

ReadEvent(n) == << "readfrom", DefaultAddress, n >>

\* bookkeeping of a bus read by caller c that received status byte st
Received(c, st, n) ==
  [local[c] EXCEPT !.rx = st, !.bus = Append(@, ReadEvent(n))]

\* bookkeeping of the register value CBits assembles from a response
Assembled(loc, data, reg) == [loc EXCEPT !.data = data, !.reg = reg]

\* the call of caller c returns or raises, leaving its locals as loc
Return(c, loc, outcome, result, label, status) ==
  /\ pc' = [pc EXCEPT ![c] = "idle"]
  /\ log' = Append(log,
       [ who |-> c, op |-> call[c], outcome |-> outcome, result |-> result,
         label |-> label, rx |-> loc.rx, bus |-> loc.bus,
         data |-> loc.data, reg |-> loc.reg,
         regs0 |-> loc.regs0, regs1 |-> regs,
         status0 |-> loc.status0, status1 |-> status,
         other |-> loc.other ])

(***************************************************************************)
(* Attribute access on the device: Python runs the descriptor's __get__ or *)
(* __set__, or the gain property's getter or setter.                       *)
(***************************************************************************)
Pending(c) == pc[c] = "idle" /\ todo[c] # << >>

Access(c) ==
  /\ Pending(c)
  /\ LET op == Head(todo[c]) IN
       /\ op.kind \in {"CBits.get", "CBits.set", "CBits.set_back",
                       "Reg.get", "Reg.set"}
       /\ call' = [call EXCEPT ![c] =
                     IF op.kind = "CBits.set_back"
                     THEN Op("CBits.set", op.acc, LastResult(c)) ELSE op]
       /\ pc' = [pc EXCEPT ![c] =
                   CASE op.kind = "CBits.get" -> "get:writeto"
                     [] op.kind \in {"CBits.set", "CBits.set_back"}
                          -> "set:writeto1"
                     [] op.kind = "Reg.get" -> "rget:writeto"
                     [] op.kind = "Reg.set" -> "rset:writeto"]
  /\ todo' = [todo EXCEPT ![c] = Tail(@)]
  /\ local' = [local EXCEPT ![c] = NewLocal]
  /\ UNCHANGED << regs, resp, status_last, log >>

\* MLX90393.gain getter: gain_values[self._gain]
GainGetter(c) ==
  /\ Pending(c)
  /\ Head(todo[c]).kind = "gain.get"
  /\ call' = [call EXCEPT ![c] = Op("gain.get", _gain, 0)]
  /\ pc' = [pc EXCEPT ![c] = "get:writeto"]
  /\ todo' = [todo EXCEPT ![c] = Tail(@)]
  /\ local' = [local EXCEPT ![c] = NewLocal]
  /\ UNCHANGED << regs, resp, status_last, log >>

\* MLX90393.gain setter: the range check, then self._gain = value
GainSetter(c) ==
  /\ Pending(c)
  /\ Head(todo[c]).kind = "gain.set"
  /\ LET value == Head(todo[c]).value IN
       /\ call' = [call EXCEPT ![c] = Op("gain.set", _gain, value)]
       /\ todo' = [todo EXCEPT ![c] = Tail(@)]
       /\ local' = [local EXCEPT ![c] = NewLocal]
       /\ IF GainRejected(value)
          THEN \* raise ValueError("Invalid GAIN setting")
               /\ pc' = pc
               /\ log' = Append(log,
                    [ who |-> c, op |-> Op("gain.set", _gain, value),
                      outcome |-> "ValueError", result |-> None,
                      label |-> "", rx |-> NewLocal.rx, bus |-> NewLocal.bus,
                      data |-> NewLocal.data, reg |-> NewLocal.reg,
                      regs0 |-> NewLocal.regs0, regs1 |-> regs,
                      status0 |-> NewLocal.status0, status1 |-> status_last,
                      other |-> FALSE ])
          ELSE /\ pc' = [pc EXCEPT ![c] = "set:writeto1"]
               /\ log' = log
  /\ UNCHANGED << regs, resp, status_last >>

(***************************************************************************)
(* CBits.__get__                                                           *)
(***************************************************************************)
CBitsGetWriteto(c) ==
  /\ pc[c] = "get:writeto"
  /\ Writeto(c, ReadPayload(call[c].acc), "get:readfrom")
  /\ UNCHANGED << status_last, call, todo, log >>

CBitsGetReadfrom(c) ==
  /\ pc[c] = "get:readfrom"
  /\ \E st \in StatusBytes :
       LET acc == call[c].acc
           data == Readfrom(st)
           reg == CBitsGetValue(acc, data)
           loc == Assembled(Received(c, st, acc.lenght), data,
                            CBitsGetReg(acc, data))
       IN  /\ local' = [Disturb(c) EXCEPT ![c] = loc]
           /\ Return(c, loc, "ok", reg,
                     IF call[c].kind = "gain.get" THEN gain_values[reg + 1]
                     ELSE "",
                     status_last)
  /\ UNCHANGED << regs, resp, status_last, call, todo >>

(***************************************************************************)
(* CBits.__set__                                                           *)
(***************************************************************************)
CBitsSetWriteto1(c) ==
  /\ pc[c] = "set:writeto1"
  /\ Writeto(c, ReadPayload(call[c].acc), "set:readfrom1")
  /\ UNCHANGED << status_last, call, todo, log >>

CBitsSetReadfrom1(c) ==
  /\ pc[c] = "set:readfrom1"
  /\ \E st \in StatusBytes :
       LET acc == call[c].acc
           value == call[c].value
           data == Readfrom(st)
           loc == Assembled(Received(c, st, acc.lenght), data,
                            CBitsSetReg(acc, data))
           built == [loc EXCEPT !.payload =
                       CBitsWritePayload(acc, MergeLow(acc, data, value))]
       IN  \/ \* the merged value is encoded, or cut to the register's
              \* width by a to_bytes that does not check the size
              /\ local' = [Disturb(c) EXCEPT ![c] = built]
              /\ pc' = [pc EXCEPT ![c] = "set:writeto2"]
              /\ log' = log
           \/ \* to_bytes raises on a value that does not fit
              /\ ~ MergeFits(acc, data, value)
              /\ local' = [Disturb(c) EXCEPT ![c] = loc]
              /\ Return(c, loc, "OverflowError", None, "", status_last)
  /\ UNCHANGED << regs, resp, status_last, call, todo >>

CBitsSetWriteto2(c) ==
  /\ pc[c] = "set:writeto2"
  /\ Writeto(c, local[c].payload, "set:readfrom2")
  /\ UNCHANGED << status_last, call, todo, log >>

CBitsSetReadfrom2(c) ==
  /\ pc[c] = "set:readfrom2"
  /\ \E st \in StatusBytes :
       LET data == Readfrom(st)
           loc == Received(c, st, call[c].acc.lenght)
       IN  /\ status_last' = data[1]
           /\ local' = [Disturb(c) EXCEPT ![c] = loc]
           /\ Return(c, loc, "ok", None, "", data[1])
  /\ UNCHANGED << regs, resp, call, todo >>

(***************************************************************************)
(* RegisterStructCMD.__get__ and __set__                                   *)
(***************************************************************************)
RegGetWriteto(c) ==
  /\ pc[c] = "rget:writeto"
  /\ Writeto(c, ReadPayload(call[c].acc), "rget:readfrom")
  /\ UNCHANGED << status_last, call, todo, log >>

RegGetReadfrom(c) ==
  /\ pc[c] = "rget:readfrom"
  /\ \E st \in StatusBytes :
       LET data == Readfrom(st)
           loc == Received(c, st, call[c].acc.lenght)
           unpacked == UnpackBH(data)
       IN  /\ status_last' = unpacked[1]
           /\ local' = [Disturb(c) EXCEPT ![c] = loc]
           /\ Return(c, loc, "ok", unpacked[2], "", unpacked[1])
  /\ UNCHANGED << regs, resp, call, todo >>

\* bytes([...]) takes only items in range(0, 256)
RegSetWriteto(c) ==
  /\ pc[c] = "rset:writeto"
  /\ IF call[c].value \in 0..(256 * 256 - 1)
     THEN /\ Writeto(c, RegWritePayload(call[c].acc, call[c].value),
                     "rset:readfrom")
          /\ log' = log
     ELSE /\ Return(c, local[c], "ValueError", None, "", status_last)
          /\ UNCHANGED << regs, resp, local >>
  /\ UNCHANGED << status_last, call, todo >>

RegSetReadfrom(c) ==
  /\ pc[c] = "rset:readfrom"
  /\ \E st \in StatusBytes :
       LET data == Readfrom(st)
           loc == Received(c, st, call[c].acc.lenght)
       IN  /\ status_last' = data[1]
           /\ local' = [Disturb(c) EXCEPT ![c] = loc]
           /\ Return(c, loc, "ok", None, "", data[1])
  /\ UNCHANGED << regs, resp, call, todo >>

\* a bus call raises: the exception leaves the descriptor
BusPositions ==
  { "get:writeto", "get:readfrom", "set:writeto1", "set:readfrom1",
    "set:writeto2", "set:readfrom2", "rget:writeto", "rget:readfrom",
    "rset:writeto", "rset:readfrom" }

BusError(c) ==
  /\ pc[c] \in BusPositions
  /\ Return(c, local[c], "OSError", None, "", status_last)
  /\ UNCHANGED << regs, resp, status_last, call, local, todo >>


(***************************************************************************)
(* What the callers do.  A caller makes the calls of a short program, one  *)
(* after the other; the programs are the uses of the driver examined.      *)
(***************************************************************************)
\* write a field, read it back, read the whole register
RoundTrip(f, v) ==
  << Op("CBits.set", f, v), Op("CBits.get", f, 0),
     Op("Reg.get", RegDescriptor(f.register), 0) >>

\* read a field, write the value read back, read the field again
ReadBack(f) ==
  << Op("CBits.get", f, 0), Op("CBits.set_back", f, 0), Op("CBits.get", f, 0) >>

\* write a whole register, read it back
RegRoundTrip(r, v) ==
  << Op("Reg.set", RegDescriptor(r), v), Op("Reg.get", RegDescriptor(r), 0) >>

\* set the gain property, read it
GainProgram(g) ==
  << Op("gain.set", _gain, g), Op("gain.get", _gain, 0) >>

ReadOps ==
  { Op("CBits.get", f, 0) : f \in DeclaredFields }
    \cup { Op("Reg.get", RegDescriptor(r), 0) : r \in RegAddrs }
    \cup { Op("gain.get", _gain, 0) }

\* any sequence of reads, up to MaxReads calls
RECURSIVE ReadSeqs(_)
ReadSeqs(n) ==
  IF n = 0 THEN { << >> }
  ELSE ReadSeqs(n - 1)
         \cup { Append(p, o) : p \in ReadSeqs(n - 1), o \in ReadOps }

\* the 16-bit values written to check the layout: the samples and every
\* single bit
LayoutValues ==
  RegSamples \cup { Pow2(k) : k \in 0..(8 * RegisterWidth - 1) }

\* write a whole register, read a field of it
RegThenField(f, v) ==
  << Op("Reg.set", RegDescriptor(f.register), v), Op("CBits.get", f, 0) >>

\* write a field with a value that no 16-bit register can hold
WideWrites ==
  { << Op("CBits.set", f, v) >> :
      f \in DeclaredFields,
      v \in ((0 - MaxNeg)..(0 - 1))
             \cup (Pow2(8 * RegisterWidth)..(Pow2(8 * RegisterWidth) + MaxOver)) }

WritePrograms ==
  { RoundTrip(f, v) : f \in DeclaredFields, v \in 0..(FieldMax(_hall) + MaxOver) }
    \cup WideWrites
    \cup { ReadBack(f) : f \in DeclaredFields }
    \cup { RegRoundTrip(r, v) : r \in RegAddrs, v \in RegSamples }
    \cup { RegThenField(f, v) : f \in DeclaredFields, v \in LayoutValues }
    \cup { GainProgram(g) : g \in (0 - MaxNeg)..(GAIN_1X + MaxOver) }

Programs == WritePrograms \cup ReadSeqs(MaxReads)

\* any field of a 16-bit register, in either byte order, written once with
\* a value that fits
AnyFields ==
  UNION { { CBits(n, r, s, RegisterWidth, l, _CMD_RR, _CMD_WR) :
              s \in 0..(8 * RegisterWidth - n), r \in RegAddrs,
              l \in BOOLEAN } : n \in 1..(8 * RegisterWidth) }

FieldPrograms ==
  { << Op("CBits.set", f, v % (FieldMax(f) + 1)) >> :
      f \in AnyFields, v \in RegSamples }

\* two callers on one device: one writes the gain field, one the hall field
GainWrites == { << Op("CBits.set", _gain, g) >> : g \in 0..FieldMax(_gain) }

HallWrites ==
  { << Op("CBits.set", _hall, v % (FieldMax(_hall) + 1)) >> : v \in RegSamples }

NoOp == Op("none", _reg_0, 0)

InitWith(programs1, programs2, contents) ==
  /\ regs \in contents
  /\ resp = << 0, 0 >>
  /\ status_last = None
  /\ pc = [c \in Callers |-> "idle"]
  /\ call = [c \in Callers |-> NoOp]
  /\ local = [c \in Callers |-> NewLocal]
  /\ \E p1 \in programs1, p2 \in programs2 :
       todo = [c \in Callers |-> IF c = 1 THEN p1 ELSE p2]
  /\ log = << >>

\* the registers hold any of the sample contents
AnyRegs == [RegAddrs -> RegSamples]

\* both registers hold the same sample content
SameRegs == { [r \in RegAddrs |-> v] : v \in RegSamples }

Init == InitWith(Programs, { << >> }, AnyRegs)

Step(c) ==
  \/ Access(c)
  \/ GainGetter(c)
  \/ GainSetter(c)
  \/ CBitsGetWriteto(c)
  \/ CBitsGetReadfrom(c)
  \/ CBitsSetWriteto1(c)
  \/ CBitsSetReadfrom1(c)
  \/ CBitsSetWriteto2(c)
  \/ CBitsSetReadfrom2(c)
  \/ RegGetWriteto(c)
  \/ RegGetReadfrom(c)
  \/ RegSetWriteto(c)
  \/ RegSetReadfrom(c)

Next == \E c \in Callers : Step(c)

Spec == Init /\ [][Next]_vars


\* the calls may fail on the bus
NextFail == Next \/ \E c \in Callers : BusError(c)

InitFail == InitWith(WritePrograms \cup ReadSeqs(1), { << >> }, AnyRegs)

SpecFail == InitFail /\ [][NextFail]_vars

\* bit-field writes only
SetStep(c) ==
  \/ Access(c)
  \/ CBitsSetWriteto1(c)
  \/ CBitsSetReadfrom1(c)
  \/ CBitsSetWriteto2(c)
  \/ CBitsSetReadfrom2(c)

NextSet == \E c \in Callers : SetStep(c)

InitField == InitWith(FieldPrograms, { << >> }, SameRegs)

SpecField == InitField /\ [][NextSet]_vars

InitConc == InitWith(GainWrites, HallWrites, SameRegs)

SpecConc == InitConc /\ [][NextSet]_vars


(***************************************************************************)
(* Properties.  They are stated over the log of finished calls: an entry   *)
(* holds the call, how it ended, what it returned, its bus traffic, and    *)
(* the registers and the last status before and after it.                  *)
(***************************************************************************)
Entries == DOMAIN log

Ok(e) == e.outcome = "ok"

IsFieldWrite(e) == e.op.kind = "CBits.set"

IsFieldRead(e) == e.op.kind = "CBits.get"

ReadKinds == { "CBits.get", "Reg.get", "gain.get" }

\* the calls strictly between entries i and j are all reads
OnlyReadsBetween(i, j) ==
  \A k \in (i + 1)..(j - 1) : log[k].op.kind \in ReadKinds

\* the value fits in the field of the descriptor
Fits(acc, v) == v \in 0..FieldMax(acc)

\* (R AND NOT mask) OR (v << start_bit)
Merged(R, acc, v) == BitOr(AndNot(R, acc.bit_mask), Shl(v, acc.star_bit))

\* (R AND mask) >> start_bit
FieldOf(R, acc) == Shr(BitAnd(R, acc.bit_mask), acc.star_bit)

\* a finished bit-field write of a fitting value that nothing interleaved with
CleanFieldWrite(e) ==
  IsFieldWrite(e) /\ Ok(e) /\ ~ e.other /\ Fits(e.op.acc, e.op.value)

\* C1: a bit-field write of a value that fits, with no other bus activity
\* interleaved, leaves every register bit outside the field mask as it was
\* and every other register unchanged, for every field of a 16-bit register
\* and for either value of lsb_first.
C1_WritePreservesOtherBits ==
  \A i \in Entries :
    LET e == log[i]
        r == e.op.acc.register
    IN  CleanFieldWrite(e) =>
          /\ AndNot(e.regs1[r], e.op.acc.bit_mask)
               = AndNot(e.regs0[r], e.op.acc.bit_mask)
          /\ \A q \in RegAddrs \ {r} : e.regs1[q] = e.regs0[q]

\* C2: for each field declared on the device, every register content R and
\* every value v that fits: after a bit-field write of v, a bit-field read of
\* the same field returns v and a whole-register read of that register
\* returns (R AND NOT mask) OR (v << start_bit).
C2_FieldRoundTrip ==
  \A i \in Entries : \A j \in Entries :
    LET w == log[i]
        g == log[j]
        acc == w.op.acc
    IN  ( /\ i < j
          /\ CleanFieldWrite(w)
          /\ acc \in DeclaredFields
          /\ OnlyReadsBetween(i, j)
          /\ Ok(g) )
        => /\ (IsFieldRead(g) /\ g.op.acc = acc) => g.result = w.op.value
           /\ (g.op.kind = "Reg.get" /\ g.op.acc.register = acc.register)
                => g.result = Merged(w.regs0[acc.register], acc, w.op.value)

\* C2, the case the specification names: R = 0x0000, the 4-bit field at bit 0
\* written with 0b1011 gives field value 0b1011 and register 0x000B
C2_Witness ==
  /\ Len(log) = 3
  /\ CleanFieldWrite(log[1]) /\ log[1].op.acc = _hall
  /\ log[1].op.value = 11 /\ log[1].regs0[0] = 0
  /\ IsFieldRead(log[2]) /\ log[2].result = 11
  /\ log[3].op.kind = "Reg.get" /\ log[3].result = 11

AccessorKinds == { "CBits.get", "CBits.set", "Reg.get", "Reg.set" }

\* C3: every accessor call of the four kinds that completes leaves
\* _status_last equal to the first byte of the last response received from
\* the bus during that call.
C3_StatusIsLastResponse ==
  \A i \in Entries :
    LET e == log[i]
    IN  (e.op.kind \in AccessorKinds /\ Ok(e)) => e.status1 = e.rx

\* the name of a gain constant
GainName(g) ==
  CASE g = GAIN_5X -> "GAIN_5X"
    [] g = GAIN_4X -> "GAIN_4X"
    [] g = GAIN_3X -> "GAIN_3X"
    [] g = GAIN_2_5X -> "GAIN_2_5X"
    [] g = GAIN_2X -> "GAIN_2X"
    [] g = GAIN_1_67X -> "GAIN_1_67X"
    [] g = GAIN_1_33X -> "GAIN_1_33X"
    [] g = GAIN_1X -> "GAIN_1X"

GainConstants ==
  { GAIN_5X, GAIN_4X, GAIN_3X, GAIN_2_5X, GAIN_2X, GAIN_1_67X, GAIN_1_33X,
    GAIN_1X }

\* C4: assigning any of the eight documented gain constants to the gain
\* property succeeds, and a following read of the gain property returns the
\* name of that constant.
C4_EveryGainConstantAccepted ==
  \A i \in Entries :
    LET e == log[i]
    IN  (e.op.kind = "gain.set" /\ e.op.value \in GainConstants)
        => /\ Ok(e)
           /\ (i + 1 \in Entries /\ log[i + 1].op.kind = "gain.get")
                => log[i + 1].label = GainName(e.op.value)

\* C5: the gain setter raises ValueError for 8 and for every negative value,
\* and whenever it raises ValueError it has made no bus call, no register has
\* changed and the last status is unchanged.
C5_GainSetterRejects ==
  \A i \in Entries :
    LET e == log[i]
    IN  e.op.kind = "gain.set" =>
          /\ (e.op.value = 8 \/ e.op.value < 0) => e.outcome = "ValueError"
          /\ e.outcome = "ValueError" =>
               /\ e.bus = << >>
               /\ e.regs1 = e.regs0
               /\ e.status1 = e.status0
               /\ (i = Len(log) /\ pc[e.who] = "idle") =>
                    (regs = e.regs0 /\ status_last = e.status0)

C5_Witness ==
  /\ \E i \in Entries :
       log[i].op.kind = "gain.set" /\ log[i].op.value = 8
         /\ log[i].outcome = "ValueError"
  /\ regs[0] # 0

\* C6: a whole-register write of a 16-bit value V followed by a
\* whole-register read of the same register returns exactly V whatever the
\* register held before, and the write sends no read command: its bus
\* traffic is the write command followed by one read.
C6_RegisterRoundTrip ==
  \A i \in Entries :
    LET w == log[i]
        r == w.op.acc.register
    IN  (w.op.kind = "Reg.set" /\ Ok(w) /\ ~ w.other) =>
          /\ w.regs1[r] = w.op.value
          /\ Len(w.bus) = 2
          /\ w.bus[1][1] = "writeto" /\ w.bus[1][3][1] = _CMD_WR
          /\ w.bus[2][1] = "readfrom"
          /\ \A j \in Entries :
               ( /\ i < j
                 /\ OnlyReadsBetween(i, j)
                 /\ log[j].op.kind = "Reg.get"
                 /\ log[j].op.acc.register = r
                 /\ Ok(log[j]) )
               => log[j].result = w.op.value

\* a register that held something else is read back as the value written
C6_Witness ==
  \E i \in Entries :
    /\ i + 1 \in Entries
    /\ log[i].op.kind = "Reg.set" /\ Ok(log[i])
    /\ log[i].regs0[log[i].op.acc.register] # log[i].op.value
    /\ log[i].op.value \div 256 # log[i].op.value % 256
    /\ log[i + 1].op.kind = "Reg.get" /\ log[i + 1].result = log[i].op.value


\* a call that failed on the bus after its write command had been sent
WriteCommandSent(e) ==
  \E k \in DOMAIN e.bus : e.bus[k][1] = "writeto" /\ e.bus[k][3][1] = _CMD_WR

\* C7 as stated: when a bus call inside an accessor call fails, the call
\* fails and the registers and the last status are as before the call.
C7_FailureIsAtomic ==
  \A i \in Entries :
    LET e == log[i]
    IN  e.outcome = "OSError" =>
          (e.regs1 = e.regs0 /\ e.status1 = e.status0)

\* C7 as amended: when a bus call inside an accessor call fails, the call
\* fails and the last status is unchanged; the registers are unchanged when
\* the failure comes before the write command has been sent, and when it
\* comes after (the bus read that follows the write command fails) the
\* target register already holds the new value, (R AND NOT mask) OR
\* (v << start_bit) for a write of a fitting v to a declared bit field and V
\* for a whole-register write, the other registers being unchanged.
C7_FailureKeepsStatusNotRegister ==
  \A i \in Entries :
    LET e == log[i]
        r == e.op.acc.register
    IN  e.outcome = "OSError" =>
          /\ e.status1 = e.status0
          /\ ~ WriteCommandSent(e) => e.regs1 = e.regs0
          /\ WriteCommandSent(e) =>
               /\ \A q \in RegAddrs \ {r} : e.regs1[q] = e.regs0[q]
               /\ e.op.kind = "Reg.set" => e.regs1[r] = e.op.value
               /\ (e.op.kind \in {"CBits.set", "gain.set"}
                     /\ Fits(e.op.acc, e.op.value))
                    => e.regs1[r] = Merged(e.regs0[r], e.op.acc, e.op.value)

\* a bit-field write that reported a bus failure and changed the register
C7_Witness ==
  \E i \in Entries :
    /\ log[i].outcome = "OSError"
    /\ log[i].op.kind = "CBits.set"
    /\ WriteCommandSent(log[i])
    /\ log[i].regs1 # log[i].regs0
    /\ regs = log[i].regs1

\* both callers have finished their bit-field write successfully
BothWritesDone ==
  /\ Len(log) = 2
  /\ \A i \in Entries : IsFieldWrite(log[i]) /\ Ok(log[i])

\* register 0x00 holds the field value each caller wrote
HoldsBothWrites ==
  \A i \in Entries : FieldOf(regs[0], log[i].op.acc) = log[i].op.value

\* C8: the read-modify-write of a bit-field write is not protected: when a
\* gain write and a hall write of register 0x00 by two callers have both
\* completed successfully and the register does not hold both written
\* values, bus calls of one caller fell inside the call of the other; and
\* such an outcome is reachable (C8_Witness).
C8_LostUpdateByInterleaving ==
  (BothWritesDone /\ ~ HoldsBothWrites) => \E i \in Entries : log[i].other

\* the hall write falls whole between the read exchange and the write
\* exchange of the gain write, and is lost
C8_Witness ==
  /\ BothWritesDone
  /\ log[1].op.acc = _hall /\ ~ log[1].other
  /\ log[2].op.acc = _gain /\ log[2].other
  /\ log[1].regs1[0] = Merged(log[2].regs0[0], _hall, log[1].op.value)
  /\ regs[0] = Merged(log[2].regs0[0], _gain, log[2].op.value)
  /\ FieldOf(regs[0], _hall) # log[1].op.value
  /\ FieldOf(regs[0], _gain) = log[2].op.value

\* C9: the gain getter returns the label at index g of (GAIN_5X, GAIN_4X,
\* GAIN_3X, GAIN_2_5X, GAIN_2X, GAIN_1_67X, GAIN_1_33X, GAIN_1X), g being
\* bits 4..6 of the content of register 0x00, whatever the other bits are.
C9_GainGetterLabel ==
  \A i \in Entries :
    LET e == log[i]
    IN  (e.op.kind = "gain.get" /\ Ok(e) /\ ~ e.other) =>
          e.label = GainName((e.regs0[0] \div 16) % 8)

\* the getter returns "GAIN_1_67X" on a register whose bits 4..6 are 5 and
\* whose other bits are not all zero
C9_Witness ==
  \E i \in Entries :
    /\ log[i].op.kind = "gain.get" /\ Ok(log[i])
    /\ log[i].label = "GAIN_1_67X"
    /\ (log[i].regs0[0] \div 16) % 8 = 5
    /\ log[i].regs0[0] \div 256 # 0
    /\ log[i].regs0[0] % 16 # 0

\* C10: for each declared bit field and every register content R, reading the
\* field, writing the value just read back to the field and reading the
\* field again returns the value of the first read, and the register holds R
\* after the write.
C10_ReadBackIdempotent ==
  \A i \in Entries :
    ( /\ i + 2 \in Entries
      /\ IsFieldRead(log[i]) /\ Ok(log[i])
      /\ log[i].op.acc \in DeclaredFields
      /\ CleanFieldWrite(log[i + 1])
      /\ log[i + 1].op.acc = log[i].op.acc
      /\ log[i + 1].op.value = log[i].result
      /\ IsFieldRead(log[i + 2]) /\ Ok(log[i + 2])
      /\ log[i + 2].op.acc = log[i].op.acc )
    => /\ log[i + 2].result = log[i].result
       /\ log[i + 1].regs1 = log[i].regs0
       /\ log[i + 2].regs1 = log[i].regs0

C10_Witness ==
  /\ Len(log) = 3
  /\ IsFieldRead(log[1]) /\ log[1].op.acc = _bits /\ log[1].result # 0
  /\ CleanFieldWrite(log[2]) /\ log[2].op.value = log[1].result
  /\ IsFieldRead(log[3]) /\ log[3].result = log[1].result
  /\ regs[2] = log[1].regs0[2] /\ regs[2] \div 256 # regs[2] % 256


\* C11: a bit-field write that completes leaves every register bit outside
\* the field mask unchanged, whatever integer is written, also one that needs
\* more bits than the field has.
C11_WriteConfinedToField ==
  \A i \in Entries :
    LET e == log[i]
        r == e.op.acc.register
    IN  (IsFieldWrite(e) /\ Ok(e) /\ ~ e.other /\ e.op.acc \in DeclaredFields)
        => AndNot(e.regs1[r], e.op.acc.bit_mask)
             = AndNot(e.regs0[r], e.op.acc.bit_mask)

\* C11, the case named: a hall write of a value above 15 changes the gain bits
C11_HallWriteKeepsGain ==
  \A i \in Entries :
    LET e == log[i]
    IN  (IsFieldWrite(e) /\ Ok(e) /\ ~ e.other /\ e.op.acc = _hall)
        => FieldOf(e.regs1[0], _gain) = FieldOf(e.regs0[0], _gain)


\* one exchange: a bus write of a command, then a bus read of 3 bytes from
\* the same device address
IsExchange(bus, k, command) ==
  /\ bus[k][1] = "writeto" /\ bus[k][3] = command
  /\ bus[k + 1][1] = "readfrom" /\ bus[k + 1][3] = 3
  /\ bus[k + 1][2] = bus[k][2]

\* [0b01010000, register_address << 2]
ReadCommand(r) == << 80, r * 4 >>

\* [0b01100000, value >> 8, value & 0xFF, register_address << 2]
WriteCommand(r, v) == << 96, v \div 256, v % 256, r * 4 >>

\* C12: the bus traffic of a completed accessor call is a sequence of
\* exchanges (one bus write, then one bus read of 3 bytes from the same
\* address): a bit-field read and a whole-register read are one exchange with
\* the 2-byte read command; a whole-register write is one exchange with the
\* 4-byte write command carrying the value; a bit-field write is two
\* exchanges, the read command first, then the write command carrying the
\* merged register value.
C12_BusTraffic ==
  \A i \in Entries :
    LET e == log[i]
        r == e.op.acc.register
    IN  (Ok(e) /\ ~ e.other) =>
          /\ e.op.kind \in {"CBits.get", "Reg.get", "gain.get"} =>
               (Len(e.bus) = 2 /\ IsExchange(e.bus, 1, ReadCommand(r)))
          /\ e.op.kind = "Reg.set" =>
               (Len(e.bus) = 2
                  /\ IsExchange(e.bus, 1, WriteCommand(r, e.op.value)))
          /\ e.op.kind \in {"CBits.set", "gain.set"} =>
               /\ Len(e.bus) = 4
               /\ IsExchange(e.bus, 1, ReadCommand(r))
               /\ IsExchange(e.bus, 3,
                    WriteCommand(r, e.bus[3][3][2] * 256 + e.bus[3][3][3]))
               /\ e.bus[3][3][2] \in 0..255 /\ e.bus[3][3][3] \in 0..255
               /\ Fits(e.op.acc, e.op.value) =>
                    IsExchange(e.bus, 3,
                      WriteCommand(r, Merged(e.regs0[r], e.op.acc, e.op.value)))

\* a bit-field write to register 0x02 with its two exchanges
C12_Witness ==
  \E i \in Entries :
    /\ log[i].op.kind = "CBits.set" /\ Ok(log[i])
    /\ log[i].op.acc = _bits /\ log[i].op.value = 5
    /\ log[i].regs0[2] = 65535
    /\ Len(log[i].bus) = 4
    /\ log[i].bus[1][3] = << 80, 8 >>
    /\ log[i].bus[3][3] = << 96, 255, 239, 8 >>

\* a finished bit-field call of the branch "not lsb_first" that received
\* its response
NotLsbFirst(e) ==
  /\ e.op.kind \in {"CBits.get", "CBits.set"}
  /\ ~ e.op.acc.lsb_first
  /\ Len(e.data) = e.op.acc.lenght

\* C13 as stated: for the descriptor of every bit-field call that took the
\* branch "not lsb_first" there are two response data bytes from which
\* CBits.__get__ and CBits.__set__ assemble different 16-bit register values.
C13_PathsAssembleDifferently ==
  \A i \in Entries :
    NotLsbFirst(log[i]) =>
      \E b1 \in 0..(Pow2(8) - 1), b2 \in 0..(Pow2(8) - 1) :
        CBitsGetReg(log[i].op.acc, << 0, b1, b2 >>)
          # CBitsSetReg(log[i].op.acc, << 0, b1, b2 >>)

\* C13, amended: in the branch "not lsb_first" the read path and the write
\* path assemble the same response bytes into the same 16-bit register
\* value, the first data byte being the high byte in both.
C13_PathsAssembleAlike ==
  \A i \in Entries : \A j \in Entries :
    LET g == log[i]
        w == log[j]
    IN  ( /\ IsFieldRead(g) /\ NotLsbFirst(g)
          /\ IsFieldWrite(w) /\ NotLsbFirst(w)
          /\ Tail(g.data) = Tail(w.data) )
        => /\ g.reg = w.reg
           /\ g.reg = g.data[2] * Pow2(8) + g.data[3]

C13_Witness ==
  \E i \in Entries :
    /\ i + 1 \in Entries
    /\ IsFieldRead(log[i]) /\ NotLsbFirst(log[i])
    /\ IsFieldWrite(log[i + 1]) /\ NotLsbFirst(log[i + 1])
    /\ Tail(log[i].data) = Tail(log[i + 1].data)
    /\ log[i].data[2] # log[i].data[3]
    /\ log[i].reg = log[i + 1].reg
    /\ log[i].reg = log[i].regs0[log[i].op.acc.register]

\* entries i..j of the log are all finished reads
AllReads(i, j) ==
  \A k \in i..j : log[k].op.kind \in ReadKinds /\ Ok(log[k])

\* every command the call sent carries the read opcode
OnlyReadOpcode(e) ==
  \A k \in DOMAIN e.bus :
    e.bus[k][1] = "writeto" => e.bus[k][3][1] = 80

\* C14: after any sequence of bit-field reads, whole-register reads and
\* gain-getter calls every register holds the value it held before the
\* sequence, and the calls of the sequence sent only the read opcode
\* 0b01010000, never the write opcode.
C14_ReadsChangeNothing ==
  \A i \in Entries : \A j \in Entries :
    (i <= j /\ AllReads(i, j)) =>
      /\ log[j].regs1 = log[i].regs0
      /\ \A k \in i..j : OnlyReadOpcode(log[k])

C14_Witness ==
  /\ Len(log) = 2 /\ AllReads(1, 2)
  /\ log[1].op.kind = "Reg.get" /\ log[1].op.acc.register = 2
  /\ log[2].op.kind = "gain.get"
  /\ log[1].result # 0 /\ log[2].result # None
  /\ regs[0] # 0 /\ regs[2] # 0
  /\ regs = log[1].regs0
  /\ log[1].bus[1][3][1] = 80 /\ log[2].bus[1][3][1] = 80

\* entry i is a finished whole-register write and entry i + 1 a finished
\* read of the bit field f of the register written
FieldReadAfterRegWrite(i, f) ==
  /\ i + 1 \in Entries
  /\ log[i].op.kind = "Reg.set" /\ Ok(log[i]) /\ ~ log[i].other
  /\ log[i].op.acc.register = f.register
  /\ IsFieldRead(log[i + 1]) /\ Ok(log[i + 1]) /\ ~ log[i + 1].other
  /\ log[i + 1].op.acc = f

\* C15: after a whole-register write of V to register 0x00 a read of the
\* gain field returns (V >> 4) AND 7 and a read of the hall field returns
\* V AND 0xF; after a whole-register write of V to register 0x02 the 3-bit
\* field at bit 3 of that register reads as (V >> 3) AND 7.
C15_AccessorsAgreeOnLayout ==
  \A i \in Entries :
    LET V == log[i].op.value
    IN  /\ FieldReadAfterRegWrite(i, _gain) =>
             (_gain.register = 0 /\ log[i + 1].result = (V \div 16) % 8)
        /\ FieldReadAfterRegWrite(i, _hall) =>
             (_hall.register = 0 /\ log[i + 1].result = V % 16)
        /\ FieldReadAfterRegWrite(i, _bits) =>
             (_bits.register = 2 /\ log[i + 1].result = (V \div 8) % 8)

C15_Witness ==
  \E i \in Entries :
    /\ FieldReadAfterRegWrite(i, _gain)
    /\ log[i].op.value = Sample(2)
    /\ log[i].regs0[0] # log[i].op.value
    /\ log[i].op.value \div 256 # log[i].op.value % 256
    /\ log[i + 1].result = 6
    /\ log[i + 1].result # FieldOf(log[i].regs0[0], _gain)

=============================================================================
